---- MODULE Spec2Model ----
(***************************************************************************)
(* State-machine model of the useChatWebSocket hook                        *)
(* (src/useChatWebSocket.ts).  One action per event-loop callback: an      *)
(* inbound socket frame, a typing-timer expiry, each of the three send     *)
(* helpers, a re-render with a new connection handle or a new logging      *)
(* toggle, and unmount.  React state updaters are applied in the step of   *)
(* the callback that enqueues them.  Console output is not part of the     *)
(* state, and neither is the value of the `log` prop that gates it.        *)
(***************************************************************************)
EXTENDS Integers, Sequences, FiniteSets, TLC

\* ------------------------------------------------------------------ bounds
MaxHistory == 2      \* "message" frames dispatched plus frames written, per run
TickMs     == 1500   \* granularity of the clock

\* ----------------------------------------------------------- program values
TYPING_MS == 3000     \* setTimeout delay in handleTyping

Null    == "null"                       \* the absent connection handle
Sockets == {"s1", "s2"}                 \* WebSocket objects the provider hands out
Users   == {"a", "b"}

\* WebSocket.readyState.  The hook only ever compares it with OPEN, so
\* CONNECTING, CLOSING and CLOSED are one value here.
OPEN     == "OPEN"
NOT_OPEN == "NOT_OPEN"
ReadyStates == {OPEN, NOT_OPEN}

VARIABLES
  mounted,           \* the component using the hook is mounted
  ws,                \* handle returned by useWebSocket: Null or a socket
  readyState,        \* ws.readyState of every socket
  onmessage,         \* per socket: is the hook's handler in ws.onmessage
  receivedMessages,  \* useState<ReceivedMessage[]>
  typingUsers,       \* useState<string[]>
  activeUsers,       \* useState<string[]>
  typingTimeouts,    \* useRef<Record<string, Timeout>>: username -> handle
  timers,            \* timers scheduled in the runtime: [h, username, left]
  wire,              \* texts written with ws.send, oldest first
  returned,          \* what the last consumer-facing send call returned
  arrived,           \* history: "message" frames dispatched to the handler
  sinceTyping,       \* history: ms since the last typing frame of a username
                     \* in typingUsers, capped at TYPING_MS (TYPING_MS for others)
  calls              \* history: texts of the send calls made while open

vars == <<mounted, ws, readyState, onmessage, receivedMessages,
          typingUsers, activeUsers, typingTimeouts, timers, wire, returned,
          arrived, sinceTyping, calls>>

\* ------------------------------------------------------------- JSON texts
\* A text on the wire is well-formed JSON or not; well-formed JSON encodes
\* null or an object.  Absent object fields are absent from the record.
Text(wf, isNull, obj) == [wf |-> wf, null |-> isNull, obj |-> obj]

JSONstringify(payload) == Text(TRUE, FALSE, payload)

\* JSON.parse: throws on a malformed text, else yields the encoded value.
JSONparse(text) ==
  IF ~text.wf THEN [threw |-> TRUE, null |-> FALSE, data |-> [x \in {} |-> x]]
  ELSE [threw |-> FALSE, null |-> text.null, data |-> text.obj]

\* data.f for an object: <<value>> when present, <<>> for undefined.
Field(data, f) == IF f \in DOMAIN data THEN <<data[f]>> ELSE <<>>


\* ------------------------------------------------------- inbound frame texts
NoObject == [k \in {} |-> k]

Malformed == Text(FALSE, FALSE, NoObject)      \* not JSON
JsonNull  == Text(TRUE, TRUE, NoObject)        \* the JSON text "null"

MessageFrames ==
  { Text(TRUE, FALSE, [type |-> "message", id |-> 1, sender |-> "a",
                       content |-> "hi", media |-> "img",
                       seen_by |-> <<"b">>, timestamp |-> "t1"]),
    Text(TRUE, FALSE, [type |-> "message", sender |-> "b", content |-> "yo"]) }

TypingFrames ==
  { Text(TRUE, FALSE, [type |-> "typing", username |-> u]) : u \in Users }

SeenFrames == { Text(TRUE, FALSE, [type |-> "seen", message_ids |-> <<1>>]) }

StatusFrames ==
  { Text(TRUE, FALSE, [type |-> "user_status", active_users |-> <<"a", "b">>]),
    Text(TRUE, FALSE, [type |-> "user_status", active_users |-> <<>>]),
    Text(TRUE, FALSE, [type |-> "user_status"]) }

OtherFrames ==
  { Text(TRUE, FALSE, [type |-> "ping"]),
    Text(TRUE, FALSE, [content |-> "untyped"]) }

InboundTexts ==
  {Malformed, JsonNull} \cup MessageFrames \cup TypingFrames \cup SeenFrames
    \cup StatusFrames \cup OtherFrames

\* --------------------------------------------------- outbound call arguments
MessagePayloads ==
  { [type |-> "message", sender_id |-> 1, content |-> "pic", media |-> "img"] }

SeenIds == { <<1, 2>> }

\* ------------------------------------------------------------------ helpers
Includes(seq, x) == \E i \in 1..Len(seq) : seq[i] = x

\* Array.prototype.filter((user) => user !== username)
FilterOut(seq, username) == SelectSeq(seq, LAMBDA user : user # username)

Min(a, b) == IF a < b THEN a ELSE b
Max(a, b) == IF a > b THEN a ELSE b

Handles(ts) == { t.h : t \in ts }
Range(f) == { f[k] : k \in DOMAIN f }

\* setTimeout hands out a handle that no live timer and no stored handle has.
NewHandle(ts, registry) ==
  CHOOSE h \in 1..(Cardinality(ts) + Cardinality(DOMAIN registry) + 1) :
    /\ h \notin Handles(ts) \cup Range(registry)
    /\ \A g \in 1..(h - 1) : g \in Handles(ts) \cup Range(registry)

setTimeout(ts, h, username) ==
  ts \cup { [h |-> h, username |-> username, left |-> TYPING_MS] }

\* clearTimeout of a handle that is not pending is a no-op.
clearTimeout(ts, h) == { t \in ts : t.h # h }

\* Variant: the whole record is emptied.
Delete_All(registry, key) == [k \in {} |-> k]

\* delete record[key]
Delete(registry, key) == [k \in DOMAIN registry \ {key} |-> registry[k]]

Put(registry, key, value) ==
  [k \in DOMAIN registry \cup {key} |-> IF k = key THEN value ELSE registry[k]]

IsOpen == ws # Null /\ readyState[ws] = OPEN

\* ------------------------------------------------------------ hook internals
\* Variant: the payload is written twice.
sendWS_Twice(payload) ==
  IF ws = Null \/ readyState[ws] # OPEN
    THEN [ret |-> FALSE, wire |-> wire]
    ELSE [ret |-> TRUE,
          wire |-> wire \o <<JSONstringify(payload), JSONstringify(payload)>>]

\* Variant: the ready-state is not looked at.
sendWS_AnyReadyState(payload) ==
  IF ws = Null
    THEN [ret |-> FALSE, wire |-> wire]
    ELSE [ret |-> TRUE, wire |-> Append(wire, JSONstringify(payload))]

\* sendWS: write the payload if the handle is there and open.
sendWS(payload) ==
  IF ws = Null \/ readyState[ws] # OPEN
    THEN [ret |-> FALSE, wire |-> wire]
    ELSE [ret |-> TRUE, wire |-> Append(wire, JSONstringify(payload))]

\* Variant: no early return for a username that is already listed.
handleTyping_NoIncludesCheck(username) ==
  LET cleared == IF username \in DOMAIN typingTimeouts
                   THEN clearTimeout(timers, typingTimeouts[username])
                   ELSE timers
      h == NewHandle(cleared, typingTimeouts)
  IN [typingUsers |-> Append(typingUsers, username),
      typingTimeouts |-> Put(typingTimeouts, username, h),
      timers |-> setTimeout(cleared, h, username)]

\* Variant: a timer already stored for the username is left to run and no
\* new one is started.
handleTyping_KeepOldTimer(username) ==
  IF Includes(typingUsers, username)
    THEN [typingUsers |-> typingUsers, typingTimeouts |-> typingTimeouts,
          timers |-> timers]
    ELSE IF username \in DOMAIN typingTimeouts
      THEN [typingUsers |-> Append(typingUsers, username),
            typingTimeouts |-> typingTimeouts, timers |-> timers]
      ELSE
        LET h == NewHandle(timers, typingTimeouts)
        IN [typingUsers |-> Append(typingUsers, username),
            typingTimeouts |-> Put(typingTimeouts, username, h),
            timers |-> setTimeout(timers, h, username)]

\* Variant: the timer already stored for the username is not cleared.
handleTyping_NoClear(username) ==
  IF Includes(typingUsers, username)
    THEN [typingUsers |-> typingUsers, typingTimeouts |-> typingTimeouts,
          timers |-> timers]
    ELSE
      LET h == NewHandle(timers, typingTimeouts)
      IN [typingUsers |-> Append(typingUsers, username),
          typingTimeouts |-> Put(typingTimeouts, username, h),
          timers |-> setTimeout(timers, h, username)]

\* handleTyping: the setTypingUsers updater with the timer bookkeeping in it.
handleTyping(username) ==
  IF Includes(typingUsers, username)
    THEN [typingUsers |-> typingUsers, typingTimeouts |-> typingTimeouts,
          timers |-> timers]
    ELSE
      LET cleared == IF username \in DOMAIN typingTimeouts
                       THEN clearTimeout(timers, typingTimeouts[username])
                       ELSE timers
          h == NewHandle(cleared, typingTimeouts)
      IN [typingUsers |-> Append(typingUsers, username),
          typingTimeouts |-> Put(typingTimeouts, username, h),
          timers |-> setTimeout(cleared, h, username)]

\* The object appended for a "message" frame; absent fields stay undefined.
ReceivedMessage(data) ==
  [type |-> "message", id |-> Field(data, "id"),
   sender |-> Field(data, "sender"), content |-> Field(data, "content"),
   media |-> Field(data, "media"), seen_by |-> Field(data, "seen_by"),
   timestamp |-> Field(data, "timestamp")]

\* Variant: the updater drops the previous messages.
AppendMessage_Replace(prev, data) == <<ReceivedMessage(data)>>

\* Variant: the new message is put in front.
AppendMessage_Prepend(prev, data) == <<ReceivedMessage(data)>> \o prev

AppendMessage(prev, data) == Append(prev, ReceivedMessage(data))

\* Variant: the usernames of the frame are added to the ones already there.
ActiveUsersOf_Merge(data) ==
  LET new == IF "active_users" \in DOMAIN data THEN data.active_users ELSE <<>>
  IN activeUsers \o SelectSeq(new, LAMBDA u : ~Includes(activeUsers, u))

\* data.active_users ?? []
ActiveUsersOf(data) ==
  IF "active_users" \in DOMAIN data THEN data.active_users ELSE <<>>

Unchanged(threw) ==
  [receivedMessages |-> receivedMessages, typingUsers |-> typingUsers,
   activeUsers |-> activeUsers, typingTimeouts |-> typingTimeouts,
   timers |-> timers, threw |-> threw]

\* Variant: the parse error is not caught.
OnParseError_Rethrow == Unchanged(TRUE)

\* catch (err) { logEvent(...); return; }
OnParseError == Unchanged(FALSE)

\* Variant: case "seen" has no break and runs into case "user_status".
LogOnly_FallsThrough(data) ==
  [Unchanged(FALSE) EXCEPT !.activeUsers = ActiveUsersOf(data)]

\* case "seen" and default: logEvent, break.
LogOnly(data) == Unchanged(FALSE)

\* ws.onmessage: the state after the handler has run on event data e.
\* Reading .type of null is a TypeError that nothing catches.
wsOnMessage(e) ==
  LET parsed == JSONparse(e)
      data == parsed.data
      type == Field(data, "type")
  IN IF parsed.threw THEN OnParseError
     ELSE IF parsed.null THEN Unchanged(TRUE)
     ELSE IF type = <<"message">>
       THEN [Unchanged(FALSE) EXCEPT
               !.receivedMessages = AppendMessage(receivedMessages, data)]
     ELSE IF type = <<"typing">>
       THEN LET r == handleTyping(data.username)
            IN [Unchanged(FALSE) EXCEPT !.typingUsers = r.typingUsers,
                                        !.typingTimeouts = r.typingTimeouts,
                                        !.timers = r.timers]
     ELSE IF type = <<"user_status">>
       THEN [Unchanged(FALSE) EXCEPT !.activeUsers = ActiveUsersOf(data)]
     ELSE LogOnly(data)

\* Variant: the registry is reset but its timers are left running.
Cleanup_KeepTimers(s) ==
  [onmessage |-> [onmessage EXCEPT ![s] = FALSE],
   timers |-> timers,
   typingTimeouts |-> NoObject]

\* The effect's cleanup for the handle s it was set up with.
Cleanup(s) ==
  [onmessage |-> [onmessage EXCEPT ![s] = FALSE],
   timers |-> { t \in timers : t.h \notin Range(typingTimeouts) },
   typingTimeouts |-> NoObject]

\* The effect body after its cleanup: attach the handler unless ws is null.
Attach(handlers, s) ==
  IF s = Null THEN handlers ELSE [handlers EXCEPT ![s] = TRUE]

\* Re-run of the effect: cleanup for the old handle, setup for the new one.
RunEffect(old, new) ==
  LET c == IF old = Null
             THEN [onmessage |-> onmessage, timers |-> timers,
                   typingTimeouts |-> typingTimeouts]
             ELSE Cleanup(old)
  IN [c EXCEPT !.onmessage = Attach(c.onmessage, new)]

\* What each consumer-facing helper hands back to its caller.
Undefined == "undefined"
\* Variant: the result of sendWS is handed on.
sendMessageReturn_Sent(sent) == IF sent THEN "true" ELSE "false"

sendMessageReturn(sent) == Undefined
sendTypingUsersReturn(sent) == Undefined
sendSeenByReturn(sent) == Undefined

TypingPayload(username) == [type |-> "typing", username |-> username]
SeenPayload(ids) == [type |-> "seen", message_ids |-> ids]

\* Variant: the sender stays listed.
ClearTyping_Never(sent, username) == typingUsers

\* Variant: the sender is cleared even when nothing was sent.
ClearTyping_Always(sent, username) == FilterOut(typingUsers, username)

\* Variant: a sent message empties the typing list.
ClearTyping_All(sent, username) == IF sent THEN <<>> ELSE typingUsers

\* setTypingUsers after sendMessage, run only when sendWS returned true.
ClearTyping(sent, username) ==
  IF sent THEN FilterOut(typingUsers, username) ELSE typingUsers

\* --------------------------------------------------------------------- Init
\* The hook right after mount: useWebSocket has not produced a handle yet.
Init ==
  /\ mounted = TRUE
  /\ ws = Null
  /\ readyState = [s \in Sockets |-> NOT_OPEN]
  /\ onmessage = [s \in Sockets |-> FALSE]
  /\ receivedMessages = <<>>
  /\ typingUsers = <<>>
  /\ activeUsers = <<>>
  /\ typingTimeouts = NoObject
  /\ timers = {}
  /\ wire = <<>>
  /\ returned = "none"
  /\ arrived = <<>>
  /\ sinceTyping = [u \in Users |-> TYPING_MS]
  /\ calls = <<>>

IsMessageText(e) == e.wf /\ ~e.null /\ Field(e.obj, "type") = <<"message">>
IsTypingText(e)  == e.wf /\ ~e.null /\ Field(e.obj, "type") = <<"typing">>

\* sinceTyping once the typing list has become `users`.
Since(since, users) ==
  [u \in Users |-> IF Includes(users, u) THEN since[u] ELSE TYPING_MS]

\* ------------------------------------------------------------------ actions
\* Room for one more entry in the histories of this run.
HistoryLeft == Len(arrived) + Len(wire) < MaxHistory

\* The provider re-renders the hook with another handle.
SetWs(s) ==
  /\ mounted
  /\ s # ws
  /\ LET r == RunEffect(ws, s)
     IN /\ onmessage' = r.onmessage
        /\ timers' = r.timers
        /\ typingTimeouts' = r.typingTimeouts
  /\ ws' = s
  /\ UNCHANGED <<mounted, readyState, receivedMessages, typingUsers,
                 activeUsers, wire, arrived, sinceTyping, calls, returned>>

\* The `log` prop changes: logEvent is a new function, so the effect
\* re-runs.  The prop's value only gates console output.
ToggleLog ==
  /\ mounted
  /\ LET r == RunEffect(ws, ws)
     IN /\ onmessage' = r.onmessage
        /\ timers' = r.timers
        /\ typingTimeouts' = r.typingTimeouts
  /\ UNCHANGED <<mounted, ws, readyState, receivedMessages, typingUsers,
                 activeUsers, wire, arrived, sinceTyping, calls, returned>>

\* A socket opens, or stops being open.
SocketState(s, rs) ==
  /\ rs # readyState[s]
  /\ readyState' = [readyState EXCEPT ![s] = rs]
  /\ UNCHANGED <<mounted, ws, onmessage, receivedMessages, typingUsers,
                 activeUsers, typingTimeouts, timers, wire, arrived,
                 sinceTyping, calls, returned>>

\* A message event on socket s: its onmessage slot runs, if one is set.
Deliver(s, e) ==
  /\ readyState[s] = OPEN
  /\ IsMessageText(e) => HistoryLeft
  /\ LET r == IF onmessage[s] THEN wsOnMessage(e) ELSE Unchanged(FALSE)
     IN /\ receivedMessages' = r.receivedMessages
        /\ typingUsers' = r.typingUsers
        /\ activeUsers' = r.activeUsers
        /\ typingTimeouts' = r.typingTimeouts
        /\ timers' = r.timers
  /\ arrived' = IF onmessage[s] /\ IsMessageText(e)
                  THEN Append(arrived, e) ELSE arrived
  /\ sinceTyping' = IF onmessage[s] /\ IsTypingText(e)
                      THEN [sinceTyping EXCEPT ![e.obj.username] = 0]
                      ELSE sinceTyping
  /\ UNCHANGED <<mounted, ws, readyState, onmessage, wire, calls,
                 returned>>

\* TickMs of wall-clock time pass.
Tick ==
  /\ timers' = { [t EXCEPT !.left = Max(0, t.left - TickMs)] : t \in timers }
  /\ sinceTyping' = Since([u \in Users |-> Min(TYPING_MS, sinceTyping[u] + TickMs)],
                          typingUsers)
  /\ UNCHANGED <<mounted, ws, readyState, onmessage, receivedMessages,
                 typingUsers, activeUsers, typingTimeouts, wire, arrived,
                 calls, returned>>

\* The setTimeout callback of a timer whose delay has passed.
TimerFire(t) ==
  /\ t \in timers
  /\ t.left = 0
  /\ timers' = timers \ {t}
  /\ typingUsers' = FilterOut(typingUsers, t.username)
  /\ typingTimeouts' = Delete(typingTimeouts, t.username)
  /\ sinceTyping' = Since(sinceTyping, typingUsers')
  /\ UNCHANGED <<mounted, ws, readyState, onmessage, receivedMessages,
                 activeUsers, wire, arrived, calls, returned>>

SendGuard == mounted /\ HistoryLeft

Record(payload) ==
  IF IsOpen THEN Append(calls, JSONstringify(payload)) ELSE calls

sendMessage(message, username) ==
  /\ SendGuard
  /\ LET r == sendWS(message)
     IN /\ wire' = r.wire
        /\ typingUsers' = ClearTyping(r.ret, username)
        /\ returned' = sendMessageReturn(r.ret)
  /\ calls' = Record(message)
  /\ sinceTyping' = Since(sinceTyping, typingUsers')
  /\ UNCHANGED <<mounted, ws, readyState, onmessage, receivedMessages,
                 activeUsers, typingTimeouts, timers, arrived>>

sendTypingUsers(username) ==
  /\ SendGuard
  /\ LET r == sendWS(TypingPayload(username))
     IN /\ wire' = r.wire
        /\ returned' = sendTypingUsersReturn(r.ret)
  /\ calls' = Record(TypingPayload(username))
  /\ UNCHANGED <<mounted, ws, readyState, onmessage, receivedMessages,
                 typingUsers, activeUsers, typingTimeouts, timers, arrived,
                 sinceTyping>>

sendSeenBy(ids) ==
  /\ SendGuard
  /\ LET r == sendWS(SeenPayload(ids))
     IN /\ wire' = r.wire
        /\ returned' = sendSeenByReturn(r.ret)
  /\ calls' = Record(SeenPayload(ids))
  /\ UNCHANGED <<mounted, ws, readyState, onmessage, receivedMessages,
                 typingUsers, activeUsers, typingTimeouts, timers, arrived,
                 sinceTyping>>

\* Unmount: the last effect's cleanup runs, if that effect installed one.
Unmount ==
  /\ mounted
  /\ mounted' = FALSE
  /\ LET r == RunEffect(ws, Null)
     IN /\ onmessage' = r.onmessage
        /\ timers' = r.timers
        /\ typingTimeouts' = r.typingTimeouts
  /\ UNCHANGED <<ws, readyState, receivedMessages, typingUsers,
                 activeUsers, wire, arrived, sinceTyping, calls, returned>>

Next ==
  \/ \E s \in Sockets \cup {Null} : SetWs(s)
  \/ ToggleLog
  \/ \E s \in Sockets, rs \in ReadyStates : SocketState(s, rs)
  \/ \E s \in Sockets, e \in InboundTexts : Deliver(s, e)
  \/ Tick
  \/ \E t \in timers : TimerFire(t)
  \/ \E m \in MessagePayloads, u \in Users : sendMessage(m, u)
  \/ \E u \in Users : sendTypingUsers(u)
  \/ \E ids \in SeenIds : sendSeenBy(ids)
  \/ Unmount

Spec == Init /\ [][Next]_vars

\* The hook left alone by its caller: typing frames arrive, the provider
\* swaps handles, the log prop changes, time passes.  The event loop runs the
\* callback of every timer whose delay has passed, and time does pass.
QuietNext ==
  \/ \E s \in Sockets \cup {Null} : SetWs(s)
  \/ ToggleLog
  \/ \E s \in Sockets, rs \in ReadyStates : SocketState(s, rs)
  \/ \E s \in Sockets, e \in TypingFrames : Deliver(s, e)
  \/ Tick
  \/ \E t \in timers : TimerFire(t)

FairSpec ==
  /\ Init
  /\ [][QuietNext]_vars
  /\ WF_vars(Tick)
  /\ WF_vars(\E t \in timers : TimerFire(t))

\* ------------------------------------------------------------------- claims
InTyping(u) == Includes(typingUsers, u)
PendingFor(u) == { t \in timers : t.username = u }

\* C1: the message list holds exactly one entry per parseable "message"
\* frame dispatched to the handler, in arrival order: same length, and entry
\* i carries the fields of the i-th such frame.
C1_MessagesFollowArrival ==
  /\ Len(receivedMessages) = Len(arrived)
  /\ \A i \in 1..Len(arrived) :
       /\ receivedMessages[i].sender = Field(arrived[i].obj, "sender")
       /\ receivedMessages[i].content = Field(arrived[i].obj, "content")
       /\ receivedMessages[i].id = Field(arrived[i].obj, "id")
       /\ receivedMessages[i].timestamp = Field(arrived[i].obj, "timestamp")

\* Two different messages have arrived, with a user typing and a send call
\* made in the same run.
C1_Witness ==
  /\ Len(receivedMessages) = 2
  /\ receivedMessages[1] # receivedMessages[2]
  /\ typingUsers # <<>>
  /\ returned # "none"

\* C2 (as claimed): a timer expiry never removes a username from the typing
\* list sooner than TYPING_MS after the last typing frame for that username.
C2_ExpiryCountsFromLastFrame ==
  [][\A t \in timers :
       (TimerFire(t) /\ InTyping(t.username))
         => sinceTyping[t.username] >= TYPING_MS]_vars

\* C3: no username occurs twice in typingUsers.
C3_NoDuplicateTyping ==
  \A i, j \in 1..Len(typingUsers) :
    typingUsers[i] = typingUsers[j] => i = j

\* A typing frame has arrived for a username that was already listed: its
\* frame is fresh while its timer has been running for a while.
C3_Witness ==
  \E u \in Users :
    /\ InTyping(u)
    /\ sinceTyping[u] = 0
    /\ \E t \in PendingFor(u) : t.left < TYPING_MS

\* C4 (as claimed): while the session stays mounted, every username that is
\* in the typing list leaves it again without any call by the consumer.
C4_TypingEventuallyRemoved ==
  \A u \in Users : InTyping(u) ~> (~InTyping(u) \/ ~mounted)

\* C5: a sendMessage(payload, u) made while the connection is open, with u
\* in the typing list and u's timer pending, leaves u out of the typing list
\* in the very next state.
C5_SendClearsSender ==
  [][\A m \in MessagePayloads, u \in Users :
       (sendMessage(m, u) /\ IsOpen /\ InTyping(u) /\ PendingFor(u) # {})
         => ~Includes(typingUsers', u)]_vars

\* A message went out last, and its sender is off the typing list although
\* the timer of that username is still stored and pending.
C5_Witness ==
  \E u \in Users :
    /\ ~InTyping(u)
    /\ u \in DOMAIN typingTimeouts
    /\ \E t \in PendingFor(u) : t.h = typingTimeouts[u] /\ t.left > 0
    /\ wire # <<>>
    /\ wire[Len(wire)].obj.type = "message"

\* C6: the step that unmounts leaves no handler attached, no timer pending
\* and the timer registry empty; from then on no step changes the messages,
\* the typing list or the active users.
C6_TeardownIsFinal ==
  [][/\ ~mounted' => /\ timers' = {}
                     /\ typingTimeouts' = NoObject
                     /\ \A s \in Sockets : ~onmessage'[s]
     /\ ~mounted => UNCHANGED <<receivedMessages, typingUsers, activeUsers>>]_vars

\* Unmounted with a username still listed whose timer was cancelled before
\* its delay had passed, and with a socket that still delivers frames.
C6_Witness ==
  /\ ~mounted
  /\ timers = {}
  /\ \E u \in Users : InTyping(u) /\ sinceTyping[u] < TYPING_MS
  /\ \E s \in Sockets : readyState[s] = OPEN

SentText(payload) == Text(TRUE, FALSE, payload)

\* C7: each call of a send helper appends exactly one text to the wire when
\* the handle is there and open, and none otherwise; the text encodes the
\* message payload, {type: "typing", username} or {type: "seen", message_ids}.
C7_OneFramePerOpenCall ==
  [][/\ \A m \in MessagePayloads, u \in Users :
          sendMessage(m, u)
            => wire' = IF IsOpen THEN Append(wire, SentText(m)) ELSE wire
     /\ \A u \in Users :
          sendTypingUsers(u)
            => wire' = IF IsOpen
                         THEN Append(wire, SentText([type |-> "typing",
                                                     username |-> u]))
                         ELSE wire
     /\ \A ids \in SeenIds :
          sendSeenBy(ids)
            => wire' = IF IsOpen
                         THEN Append(wire, SentText([type |-> "seen",
                                                     message_ids |-> ids]))
                         ELSE wire]_vars

\* Two frames of different kinds have been written.
C7_Witness ==
  /\ Len(wire) = 2
  /\ wire[1].obj.type # wire[2].obj.type

AnySend ==
  \/ \E m \in MessagePayloads, u \in Users : sendMessage(m, u)
  \/ \E u \in Users : sendTypingUsers(u)
  \/ \E ids \in SeenIds : sendSeenBy(ids)

\* C8 (as claimed): a send helper returns true when it wrote its frame and
\* false when the connection was not open.
C8_ReturnsBoolean ==
  [][AnySend => returned' = IF wire' # wire THEN "true" ELSE "false"]_vars

\* C8 (amended): sendWS yields true exactly when it writes, but each of the
\* three send helpers returns undefined whether or not the frame was written.
C8_ReturnsUndefined ==
  [][/\ AnySend => returned' = Undefined
     /\ \A m \in MessagePayloads :
          /\ sendWS(m).ret = IsOpen
          /\ sendWS(m).ret = (sendWS(m).wire # wire)]_vars

\* A call that wrote its frame has returned undefined.
C8_Witness ==
  /\ returned = Undefined
  /\ Len(wire) = 1

\* C9: a send helper called while the connection is not open changes neither
\* the messages, the typing list, the active users, the timer registry nor
\* the pending timers; a sendMessage for a listed username leaves it listed.
C9_FailedSendChangesNothing ==
  [][(AnySend /\ ~IsOpen)
       => UNCHANGED <<receivedMessages, typingUsers, activeUsers,
                      typingTimeouts, timers>>]_vars

\* A send call has been made, nothing was ever written, and a username is
\* listed as typing with its timer pending while the connection is not open.
C9_Witness ==
  /\ returned = Undefined
  /\ wire = <<>>
  /\ ~IsOpen
  /\ \E u \in Users : InTyping(u) /\ PendingFor(u) # {}

\* C10: the texts written are, in call order, exactly the payloads of the
\* send calls that were made while the connection was open.
C10_NothingSentLater ==
  wire = calls

\* A send call was dropped, the handle is open now, and nothing has been
\* written.
C10_Witness ==
  /\ returned = Undefined
  /\ wire = <<>>
  /\ IsOpen

\* C11: a "user_status" frame dispatched in any reachable state leaves the
\* active users equal to the frame's active_users sequence, the empty
\* sequence when the field is absent; nothing of the old content is kept, and
\* nothing else changes.
C11_StatusReplaces ==
  \A e \in StatusFrames :
    LET r == wsOnMessage(e)
    IN /\ r.activeUsers = IF "active_users" \in DOMAIN e.obj
                             THEN e.obj.active_users ELSE <<>>
       /\ r.receivedMessages = receivedMessages
       /\ r.typingUsers = typingUsers
       /\ r.typingTimeouts = typingTimeouts
       /\ r.timers = timers

\* A "user_status" frame has filled the active users, and the handler is
\* attached to an open socket on which the emptying frame can arrive next.
C11_Witness ==
  /\ activeUsers = <<"a", "b">>
  /\ \E s \in Sockets, e \in StatusFrames :
       /\ onmessage[s]
       /\ "active_users" \notin DOMAIN e.obj
       /\ ENABLED Deliver(s, e)

\* C12: a frame that is not JSON, dispatched in any reachable state, leaves
\* the messages, the typing list, the active users, the registry and the
\* pending timers as they are, and the handler returns without throwing; the
\* handler stays attached, so the next frame is dispatched as usual.
C12_MalformedIsDiscarded ==
  LET r == wsOnMessage(Malformed)
  IN /\ r.receivedMessages = receivedMessages
     /\ r.typingUsers = typingUsers
     /\ r.activeUsers = activeUsers
     /\ r.typingTimeouts = typingTimeouts
     /\ r.timers = timers
     /\ ~r.threw

\* Every part of the state is non-empty and a frame that is not JSON is
\* dispatched to the attached handler: the step ends in this same state.
C12_Witness ==
  /\ receivedMessages # <<>>
  /\ typingUsers # <<>>
  /\ activeUsers # <<>>
  /\ timers # {}
  /\ \E s \in Sockets : onmessage[s] /\ ENABLED Deliver(s, Malformed)

\* C13: a "seen" frame, a frame with another discriminator and a frame
\* without one, dispatched in any reachable state, leave the messages, the
\* typing list, the active users, the registry and the pending timers as
\* they are.
C13_SeenAndUnknownAreInert ==
  \A e \in SeenFrames \cup OtherFrames :
    LET r == wsOnMessage(e)
    IN /\ r.receivedMessages = receivedMessages
       /\ r.typingUsers = typingUsers
       /\ r.activeUsers = activeUsers
       /\ r.typingTimeouts = typingTimeouts
       /\ r.timers = timers

\* Two users are listed with their timers, the active users are set, and a
\* "seen" frame is dispatched to the attached handler: the step ends in this
\* same state.
C13_Witness ==
  /\ Len(typingUsers) = 2
  /\ Cardinality(timers) = 2
  /\ activeUsers = <<"a", "b">>
  /\ \E s \in Sockets, e \in SeenFrames : onmessage[s] /\ ENABLED Deliver(s, e)

\* C14: a sendMessage(m, u) made while the connection is open takes exactly
\* the username u it was called with out of the typing list, whatever sender
\* the payload names; the other usernames keep their places, and the
\* messages, the active users, the registry and the pending timers (the one
\* of u included) stay as they are.
C14_SendClearsOnlyArgument ==
  [][\A m \in MessagePayloads, u \in Users :
       (sendMessage(m, u) /\ IsOpen)
         => /\ typingUsers' = SelectSeq(typingUsers, LAMBDA v : v # u)
            /\ PendingFor(u)' = PendingFor(u)
            /\ UNCHANGED <<receivedMessages, activeUsers, typingTimeouts,
                           timers>>]_vars

\* A message was sent for one of two typing users: the other one is still
\* listed, the sender is not, and the timers of both are still pending.
C14_Witness ==
  /\ Len(wire) = 1
  /\ wire[1].obj.type = "message"
  /\ \E u, v \in Users :
       /\ u # v
       /\ ~InTyping(u) /\ u \in DOMAIN typingTimeouts /\ PendingFor(u) # {}
       /\ InTyping(v) /\ PendingFor(v) # {}

\* C15: when the timer of username u fires, u leaves the typing list and the
\* registry, that timer is gone, and every other username, registry entry
\* and pending timer is as before; when u is not listed (a sendMessage
\* cleared it) the typing list stays as it is.  The messages and the active
\* users are not touched.
C15_FireRemovesOnlyItsUser ==
  [][\A t \in timers :
       TimerFire(t)
         => /\ typingUsers' = SelectSeq(typingUsers, LAMBDA v : v # t.username)
            /\ ~InTyping(t.username) => typingUsers' = typingUsers
            /\ DOMAIN typingTimeouts' = DOMAIN typingTimeouts \ {t.username}
            /\ \A v \in DOMAIN typingTimeouts' :
                 typingTimeouts'[v] = typingTimeouts[v]
            /\ timers' = timers \ {t}
            /\ UNCHANGED <<receivedMessages, activeUsers>>]_vars

\* A sent message has cleared a username whose timer is now due and can fire,
\* while another username is listed with its own timer pending.
C15_Witness ==
  /\ wire # <<>>
  /\ wire[1].obj.type = "message"
  /\ \E t \in timers :
       /\ ENABLED TimerFire(t)
       /\ ~InTyping(t.username)
       /\ typingTimeouts[t.username] = t.h
       /\ \E v \in Users \ {t.username} : InTyping(v) /\ PendingFor(v) # {}

\* C16: the message list changes only in the step that dispatches a
\* "message" frame to the attached handler, and that step adds one entry at
\* the end and leaves the entries before it as they were; every other step
\* (other frames, timer fires, the three send calls, handle changes) leaves
\* the list as it is.
C16_MessagesAppendOnly ==
  [][receivedMessages' # receivedMessages
       => /\ \E s \in Sockets, e \in MessageFrames :
               Deliver(s, e) /\ onmessage[s]
          /\ Len(receivedMessages') = Len(receivedMessages) + 1
          /\ \A i \in 1..Len(receivedMessages) :
               receivedMessages'[i] = receivedMessages[i]]_vars

\* Two messages are listed in a mounted hook whose effect has been re-run
\* after a typing frame (the username is listed without a timer) and whose
\* active users have been set.
C16_Witness ==
  /\ mounted
  /\ Len(receivedMessages) = 2
  /\ activeUsers # <<>>
  /\ \E u \in Users : InTyping(u) /\ PendingFor(u) = {}

\* C17: in every reachable state the registry and the pending timers are the
\* same thing: every pending timer is the one stored under its username (so
\* there is at most one per username and none outside the registry), and
\* every stored handle is a pending timer of that username (so a handle that
\* clearTimeout is called with has neither fired nor been cleared before).
C17_RegistryIsThePendingTimers ==
  /\ \A t \in timers :
       /\ t.username \in DOMAIN typingTimeouts
       /\ typingTimeouts[t.username] = t.h
  /\ \A u \in DOMAIN typingTimeouts :
       \E t \in timers : t.h = typingTimeouts[u] /\ t.username = u
  /\ Cardinality(timers) = Cardinality(DOMAIN typingTimeouts)

\* Both usernames have a stored handle, one of them is not listed (a send
\* cleared it), and one handle has been replaced by a later one.
C17_Witness ==
  /\ DOMAIN typingTimeouts = Users
  /\ \E u \in Users : ~InTyping(u)
  /\ \E u \in Users : typingTimeouts[u] > Cardinality(timers)

\* C18: in every reachable state of a mounted hook, each username in the
\* typing list has a handle in the registry and that handle is a pending
\* timer of the username.
C18_ListedHasPendingTimer ==
  mounted =>
    \A u \in Users :
      InTyping(u) =>
        /\ u \in DOMAIN typingTimeouts
        /\ \E t \in timers : t.h = typingTimeouts[u] /\ t.username = u

\* C19: a username that gets listed is not taken out by a timer older than
\* its listing.  In the step that lists u (again), every pending timer of u
\* has the full TYPING_MS left, so a timer started for an earlier listing is
\* gone; while u stays listed no timer of u appears and the ones it has only
\* lose the time that passes; and u leaves the list only by a sendMessage
\* for u on an open connection or by one of these timers coming due.
C19_OldTimerNeverRemovesReAdded ==
  [][/\ \A n \in timers' :
          Includes(typingUsers', n.username)
            => IF InTyping(n.username)
                 THEN \E t \in timers :
                        /\ t.h = n.h
                        /\ t.username = n.username
                        /\ \/ n.left = t.left
                           \/ Tick /\ n.left = Max(0, t.left - TickMs)
                 ELSE n.left = TYPING_MS
     /\ typingUsers' # typingUsers =>
          \A u \in Users :
            (InTyping(u) /\ ~Includes(typingUsers', u))
              => \/ \E m \in MessagePayloads : sendMessage(m, u) /\ IsOpen
                 \/ \E t \in PendingFor(u) : TimerFire(t) /\ t.left = 0]_vars

\* A username was listed, cleared by a sent message and listed again: its
\* stored handle is a later one than two first listings can hand out, and
\* that timer has the full delay left.
C19_Witness ==
  /\ wire # <<>>
  /\ \E u \in Users :
       /\ InTyping(u)
       /\ \E t \in PendingFor(u) :
            /\ typingTimeouts[u] = t.h
            /\ t.h > Cardinality(Users)
            /\ t.left = TYPING_MS
====
